---- MODULE Spec2Model ----
(***************************************************************************)
(* A model of accounts.py: the Account class (one user's cash balance,     *)
(* share holdings and transaction history), the module-level price table   *)
(* and get_share_price, and a caller that holds the values the getters     *)
(* return.                                                                 *)
(*                                                                         *)
(* Python values are records tagged by kind (field k):                     *)
(*   a float or int amount is Fin(n), n counted in half dollars (every     *)
(*   amount and price of the model is a multiple of 0.50 far below 2^52,   *)
(*   where binary64 arithmetic and integer arithmetic agree), or NaN,      *)
(*   PInf, NInf; a str given where a number is expected is NotANumber;     *)
(*   an int quantity is IntV(n), a float quantity FloatV(n); None is None. *)
(* The timestamp field of a transaction record is left out: no operation   *)
(* reads it.                                                               *)
(***************************************************************************)
EXTENDS Integers, Sequences, FiniteSets, TLC

VARIABLES
    alive,              \* an Account object exists (__init__ returned)
    _cash_balance,      \* Account._cash_balance
    _total_deposits,    \* Account._total_deposits
    _holdings,          \* Account._holdings: uppercase symbol -> int
    _transactions,      \* Account._transactions: list of record dicts
    _test_prices,       \* the module's price table: uppercase symbol -> price
    holdings_copy,      \* the dict a caller got from get_holdings()
    history_copy,       \* the list a caller got from get_transaction_history()
    last,               \* the last call made on the account and how it ended
    before,             \* the account and the prices right before that call
    threads             \* the callers that run calls on the account concurrently

fields == <<_cash_balance, _total_deposits, _holdings, _transactions>>
copies == <<holdings_copy, history_copy>>
vars == <<alive, _cash_balance, _total_deposits, _holdings, _transactions,
          _test_prices, holdings_copy, history_copy, last, before, threads>>

(***************************************************************************)
(* Bounds                                                                  *)
(***************************************************************************)
\* successful operations are explored while the history is shorter than this
MaxTransactions == 3

(***************************************************************************)
(* Python values                                                           *)
(***************************************************************************)
Fin(n) == [k |-> "fin", v |-> n]
NaN == [k |-> "nan", v |-> 0]
PInf == [k |-> "inf", v |-> 1]
NInf == [k |-> "inf", v |-> -1]
NotANumber == [k |-> "str", v |-> 0]
IntV(n) == [k |-> "int", v |-> n]
FloatV(n) == [k |-> "float", v |-> n]
None == [k |-> "none"]
Str(s) == [k |-> "str", s |-> s]

\* dollars and cents (0 or 50) as an amount
Money(dollars, cents) == Fin(2 * dollars + cents \div 50)

\* isinstance(x, (int, float))
IsNumber(x) == x.k \in {"fin", "nan", "inf"}
\* isinstance(x, int)
IsInt(x) == x.k = "int"

Rank(a) == IF a.k = "inf" THEN a.v ELSE 0

\* a < b on floats: every comparison with NaN is false
FLt(a, b) ==
    /\ a.k # "nan"
    /\ b.k # "nan"
    /\ \/ Rank(a) < Rank(b)
       \/ Rank(a) = Rank(b) /\ a.k = "fin" /\ a.v < b.v

FGt(a, b) == FLt(b, a)

\* a <= b on floats
FLe(a, b) == a.k # "nan" /\ b.k # "nan" /\ ~FLt(b, a)

FGe(a, b) == FLe(b, a)

\* a + b on floats
FAdd(a, b) ==
    IF a.k = "nan" \/ b.k = "nan" THEN NaN
    ELSE IF a.k = "inf" /\ b.k = "inf" THEN (IF a.v = b.v THEN a ELSE NaN)
    ELSE IF a.k = "inf" THEN a
    ELSE IF b.k = "inf" THEN b
    ELSE Fin(a.v + b.v)

FNeg(a) == IF a.k = "nan" THEN NaN ELSE [k |-> a.k, v |-> 0 - a.v]

\* a - b on floats
FSub(a, b) == FAdd(a, FNeg(b))

\* price * quantity: a finite float times an int
FMulInt(p, q) == Fin(p.v * q)

\* str.upper() on the symbols of the model
Upper(s) ==
    CASE s = "aapl" -> "AAPL"
      [] s = "tsla" -> "TSLA"
      [] OTHER -> s

(***************************************************************************)
(* Inputs                                                                  *)
(***************************************************************************)
Amounts == {Money(-50, 0), Money(0, 0), Money(1500, 0), Money(10000, 0),
            NaN, PInf, NotANumber}
Quantities == {IntV(-5), IntV(0), IntV(4), IntV(10), FloatV(5)}
Symbols == {"AAPL", "aapl", "TSLA", "FAKE"}
\* the amounts of the runs in which prices change
TradingAmounts == {Money(0, 0), Money(1500, 0), Money(10000, 0)}
\* the prices a test patches in, for the symbols it patches
PatchSymbols == {"AAPL"}
PatchPrices == {Money(150, 0), Money(160, 0)}

(***************************************************************************)
(* Exceptions (with what their messages report) and the outcome of the     *)
(* last call                                                               *)
(***************************************************************************)
Ok == [type |-> "ok"]
ValueError == [type |-> "ValueError"]
TypeError == [type |-> "TypeError"]
\* "Cannot withdraw ${amount}: insufficient funds. Current balance: ${balance}"
\* "Cannot buy {quantity} of {SYMBOL} for ${total_cost}: insufficient funds. ..."
InsufficientFundsError(requested, balance) ==
    [type |-> "InsufficientFundsError", requested |-> requested, balance |-> balance]
\* "Cannot sell {quantity} shares of {SYMBOL}. Only {shares_owned} shares are owned."
InsufficientSharesError(requested, symbol, owned) ==
    [type |-> "InsufficientSharesError", requested |-> requested,
     symbol |-> symbol, owned |-> owned]
\* "No price data found for symbol: {symbol}"
UnknownSymbolError(symbol) == [type |-> "UnknownSymbolError", symbol |-> symbol]

Call(op, err) == [op |-> op, err |-> err]

Snapshot == [cash |-> _cash_balance, deposits |-> _total_deposits,
             holdings |-> _holdings, transactions |-> _transactions,
             prices |-> _test_prices]

\* the call raised err before any assignment
Raise(op, err) ==
    /\ last' = Call(op, err)
    /\ before' = Snapshot
    /\ UNCHANGED <<_cash_balance, _total_deposits, _holdings, _transactions>>

\* the call returned
Returned(op) ==
    /\ last' = Call(op, Ok)
    /\ before' = Snapshot

(***************************************************************************)
(* The price table and get_share_price                                     *)
(***************************************************************************)
_test_prices_initial ==
    [s \in {"AAPL", "GOOGL", "TSLA"} |->
        CASE s = "AAPL" -> Money(150, 0)
          [] s = "GOOGL" -> Money(2750, 0)
          [] s = "TSLA" -> Money(700, 50)]

\* get_share_price raises UnknownSymbolError
PriceUnknown(prices, symbol) == Upper(symbol) \notin DOMAIN prices

get_share_price(prices, symbol) == prices[Upper(symbol)]


(***************************************************************************)
(* Account                                                                 *)
(***************************************************************************)
EmptyHoldings == [s \in {} |-> 0]

\* self._holdings.get(symbol, 0)
Owned(holdings, symbol) == IF symbol \in DOMAIN holdings THEN holdings[symbol] ELSE 0

\* the record with the symbol as the caller wrote it
Transaction_symbol_as_given(type, symbol, quantity, price_per_share, total_amount) ==
    [type |-> type,
     symbol |-> IF symbol # "" THEN Str(symbol) ELSE None,
     quantity |-> quantity,
     price_per_share |-> price_per_share,
     total_amount |-> total_amount]

\* the record _record_transaction builds; symbol is "" when the caller gives none
Transaction(type, symbol, quantity, price_per_share, total_amount) ==
    [type |-> type,
     symbol |-> IF symbol # "" THEN Str(Upper(symbol)) ELSE None,
     quantity |-> quantity,
     price_per_share |-> price_per_share,
     total_amount |-> total_amount]

\* a call that forgets to store the record
_record_transaction_skipped(type, symbol, quantity, price_per_share, total_amount) ==
    UNCHANGED _transactions

\* a call that puts the record at the head of the history
_record_transaction_prepends(type, symbol, quantity, price_per_share, total_amount) ==
    _transactions' = <<Transaction(type, symbol, quantity, price_per_share, total_amount)>>
                        \o _transactions

_record_transaction(type, symbol, quantity, price_per_share, total_amount) ==
    _transactions' = Append(_transactions,
        Transaction(type, symbol, quantity, price_per_share, total_amount))

\* no caller runs a call concurrently
NoThreads ==
    [started |-> FALSE, locked |-> FALSE, owner |-> 0, raced |-> FALSE,
     start |-> Fin(0), t |-> <<>>]

Init ==
    /\ alive = FALSE
    /\ _cash_balance = Fin(0)
    /\ _total_deposits = Fin(0)
    /\ _holdings = EmptyHoldings
    /\ _transactions = <<>>
    /\ _test_prices = _test_prices_initial
    /\ holdings_copy = None
    /\ history_copy = None
    /\ last = Call("import", Ok)
    /\ before = Snapshot
    /\ threads = NoThreads

\* the exception __init__ raises, Ok when none
__init___error(initial_deposit) ==
    IF ~IsNumber(initial_deposit) THEN TypeError
    ELSE IF FLt(initial_deposit, Fin(0)) THEN ValueError
    ELSE Ok

\* a construction that records its funding whatever the amount
RecordsInitialDeposit_always(initial_deposit) == TRUE

\* if initial_deposit > 0
RecordsInitialDeposit(initial_deposit) == FGt(initial_deposit, Fin(0))

__init__(initial_deposit) ==
    /\ ~alive
    /\ UNCHANGED <<_test_prices, copies, threads>>
    /\ IF __init___error(initial_deposit) # Ok
       THEN Raise("__init__", __init___error(initial_deposit)) /\ UNCHANGED alive
       ELSE /\ alive' = TRUE
            /\ _cash_balance' = initial_deposit
            /\ _total_deposits' = initial_deposit
            /\ _holdings' = EmptyHoldings
            /\ IF RecordsInitialDeposit(initial_deposit)
               THEN _record_transaction("DEPOSIT", "", None, None, initial_deposit)
               ELSE _transactions' = <<>>
            /\ Returned("__init__")

\* not isinstance(amount, (int, float)) or amount <= 0
InvalidAmount(amount) == ~IsNumber(amount) \/ FLe(amount, Fin(0))

\* the exception deposit raises, Ok when none
deposit_error(amount) == IF InvalidAmount(amount) THEN ValueError ELSE Ok

\* a deposit that credits the cash balance and not the total deposited
deposit_cash_only(amount) ==
    /\ alive
    /\ UNCHANGED <<alive, threads, _test_prices, copies>>
    /\ IF deposit_error(amount) # Ok
       THEN Raise("deposit", deposit_error(amount))
       ELSE /\ Len(_transactions) < MaxTransactions
            /\ _cash_balance' = FAdd(_cash_balance, amount)
            /\ _record_transaction("DEPOSIT", "", None, None, amount)
            /\ UNCHANGED <<_total_deposits, _holdings>>
            /\ Returned("deposit")

deposit(amount) ==
    /\ alive
    /\ UNCHANGED <<alive, threads, _test_prices, copies>>
    /\ IF deposit_error(amount) # Ok
       THEN Raise("deposit", deposit_error(amount))
       ELSE /\ Len(_transactions) < MaxTransactions
            /\ _cash_balance' = FAdd(_cash_balance, amount)
            /\ _total_deposits' = FAdd(_total_deposits, amount)
            /\ _record_transaction("DEPOSIT", "", None, None, amount)
            /\ UNCHANGED _holdings
            /\ Returned("deposit")

\* the funds check refusing a withdrawal of the whole balance
withdraw_error_refuses_whole_balance(cash, amount) ==
    IF InvalidAmount(amount) THEN ValueError
    ELSE IF FGe(amount, cash) THEN InsufficientFundsError(amount, cash)
    ELSE Ok

\* a withdrawal that does not look at the balance
withdraw_error_no_funds_check(cash, amount) ==
    IF InvalidAmount(amount) THEN ValueError ELSE Ok

\* the exception withdraw raises, Ok when none
withdraw_error(cash, amount) ==
    IF InvalidAmount(amount) THEN ValueError
    ELSE IF FGt(amount, cash) THEN InsufficientFundsError(amount, cash)
    ELSE Ok

withdraw(amount) ==
    /\ alive
    /\ UNCHANGED <<alive, threads, _test_prices, copies>>
    /\ IF withdraw_error(_cash_balance, amount) # Ok
       THEN Raise("withdraw", withdraw_error(_cash_balance, amount))
       ELSE /\ Len(_transactions) < MaxTransactions
            /\ _cash_balance' = FSub(_cash_balance, amount)
            /\ _record_transaction("WITHDRAW", "", None, None, amount)
            /\ UNCHANGED <<_total_deposits, _holdings>>
            /\ Returned("withdraw")

\* not isinstance(quantity, int) or quantity <= 0
InvalidQuantity(quantity) == ~IsInt(quantity) \/ quantity.v <= 0

\* the cost of one share, whatever the quantity
TotalCost_unit_price(price, q) == price

\* total_cost = price * quantity
TotalCost(price, q) == FMulInt(price, q)

\* the funds check refusing a purchase that takes the whole balance
buy_shares_error_refuses_exact_cost(cash, prices, symbol, quantity) ==
    IF InvalidQuantity(quantity) THEN ValueError
    ELSE IF PriceUnknown(prices, symbol) THEN UnknownSymbolError(symbol)
    ELSE IF FGe(TotalCost(get_share_price(prices, symbol), quantity.v), cash)
    THEN InsufficientFundsError(TotalCost(get_share_price(prices, symbol), quantity.v), cash)
    ELSE Ok

\* the price lookup moved before the quantity check
buy_shares_error_price_first(cash, prices, symbol, quantity) ==
    IF PriceUnknown(prices, symbol) THEN UnknownSymbolError(symbol)
    ELSE IF InvalidQuantity(quantity) THEN ValueError
    ELSE IF FGt(TotalCost(get_share_price(prices, symbol), quantity.v), cash)
    THEN InsufficientFundsError(TotalCost(get_share_price(prices, symbol), quantity.v), cash)
    ELSE Ok

\* the exception buy_shares raises, Ok when none
buy_shares_error(cash, prices, symbol, quantity) ==
    IF InvalidQuantity(quantity) THEN ValueError
    ELSE IF PriceUnknown(prices, symbol) THEN UnknownSymbolError(symbol)
    ELSE IF FGt(TotalCost(get_share_price(prices, symbol), quantity.v), cash)
    THEN InsufficientFundsError(TotalCost(get_share_price(prices, symbol), quantity.v), cash)
    ELSE Ok

\* a purchase that replaces what was held
HoldingsAfterBuy_overwrites(holdings, symbol, q) ==
    [s \in DOMAIN holdings \cup {symbol} |-> IF s = symbol THEN q ELSE holdings[s]]

\* self._holdings[normalized_symbol] = self._holdings.get(normalized_symbol, 0) + quantity
HoldingsAfterBuy(holdings, symbol, q) ==
    [s \in DOMAIN holdings \cup {symbol} |->
        IF s = symbol THEN Owned(holdings, symbol) + q ELSE holdings[s]]

buy_shares(symbol, quantity) ==
    /\ alive
    /\ UNCHANGED <<alive, threads, _test_prices, copies>>
    /\ IF buy_shares_error(_cash_balance, _test_prices, symbol, quantity) # Ok
       THEN Raise("buy_shares",
                  buy_shares_error(_cash_balance, _test_prices, symbol, quantity))
       ELSE LET price == get_share_price(_test_prices, symbol)
                total_cost == TotalCost(price, quantity.v)
            IN  /\ Len(_transactions) < MaxTransactions
                /\ _cash_balance' = FSub(_cash_balance, total_cost)
                /\ _holdings' = HoldingsAfterBuy(_holdings, Upper(symbol), quantity.v)
                /\ _record_transaction("BUY", symbol, quantity, price, total_cost)
                /\ UNCHANGED _total_deposits
                /\ Returned("buy_shares")

\* the proceeds of one share, whatever the quantity
SaleValue_unit_price(price, q) == price

\* total_value = price * quantity
SaleValue(price, q) == FMulInt(price, q)

\* the price lookup moved before the shares-owned check
sell_shares_error_price_first(holdings, prices, symbol, quantity) ==
    IF InvalidQuantity(quantity) THEN ValueError
    ELSE IF PriceUnknown(prices, symbol) THEN UnknownSymbolError(symbol)
    ELSE IF quantity.v > Owned(holdings, Upper(symbol))
    THEN InsufficientSharesError(quantity.v, Upper(symbol), Owned(holdings, Upper(symbol)))
    ELSE Ok

\* the exception sell_shares raises, Ok when none
sell_shares_error(holdings, prices, symbol, quantity) ==
    IF InvalidQuantity(quantity) THEN ValueError
    ELSE IF quantity.v > Owned(holdings, Upper(symbol))
    THEN InsufficientSharesError(quantity.v, Upper(symbol), Owned(holdings, Upper(symbol)))
    ELSE IF PriceUnknown(prices, symbol) THEN UnknownSymbolError(symbol)
    ELSE Ok

\* the sale without the del of an entry that reached 0
HoldingsAfterSell_keeps_zero(holdings, symbol, q) ==
    [s \in DOMAIN holdings |-> IF s = symbol THEN holdings[s] - q ELSE holdings[s]]

\* the sale that deletes the entry whatever is left
HoldingsAfterSell_drops_entry(holdings, symbol, q) ==
    [s \in DOMAIN holdings \ {symbol} |-> holdings[s]]

\* self._holdings[normalized_symbol] -= quantity, and del of the entry at 0
HoldingsAfterSell(holdings, symbol, q) ==
    LET left == holdings[symbol] - q
        keys == IF left = 0 THEN DOMAIN holdings \ {symbol} ELSE DOMAIN holdings
    IN  [s \in keys |-> IF s = symbol THEN left ELSE holdings[s]]

sell_shares(symbol, quantity) ==
    /\ alive
    /\ UNCHANGED <<alive, threads, _test_prices, copies>>
    /\ IF sell_shares_error(_holdings, _test_prices, symbol, quantity) # Ok
       THEN Raise("sell_shares",
                  sell_shares_error(_holdings, _test_prices, symbol, quantity))
       ELSE LET price == get_share_price(_test_prices, symbol)
                total_value == SaleValue(price, quantity.v)
            IN  /\ Len(_transactions) < MaxTransactions
                /\ _cash_balance' = FAdd(_cash_balance, total_value)
                /\ _holdings' = HoldingsAfterSell(_holdings, Upper(symbol), quantity.v)
                /\ _record_transaction("SELL", symbol, quantity, price, total_value)
                /\ UNCHANGED _total_deposits
                /\ Returned("sell_shares")

(***************************************************************************)
(* Derived values                                                          *)
(***************************************************************************)
RECURSIVE SumHoldings(_, _, _)
\* the loop of get_portfolio_value over the symbols S of holdings
SumHoldings(S, holdings, prices) ==
    IF S = {} THEN Fin(0)
    ELSE LET symbol == CHOOSE s \in S : TRUE
         IN  FAdd(SumHoldings(S \ {symbol}, holdings, prices),
                  IF PriceUnknown(prices, symbol) THEN Fin(0)
                  ELSE FMulInt(get_share_price(prices, symbol), holdings[symbol]))

\* a valuation that gives up when a held symbol has no price
PortfolioValue_stops_at_unknown(holdings, prices) ==
    IF \E s \in DOMAIN holdings : PriceUnknown(prices, s)
    THEN Fin(0)
    ELSE SumHoldings(DOMAIN holdings, holdings, prices)

PortfolioValue(holdings, prices) == SumHoldings(DOMAIN holdings, holdings, prices)

TotalValue(cash, holdings, prices) == FAdd(cash, PortfolioValue(holdings, prices))

\* profit and loss that leaves the shares out
ProfitLoss_cash_only(cash, deposits, holdings, prices) == FSub(cash, deposits)

ProfitLoss(cash, deposits, holdings, prices) ==
    FSub(TotalValue(cash, holdings, prices), deposits)

get_cash_balance == _cash_balance
get_portfolio_value == PortfolioValue(_holdings, _test_prices)
get_total_value == TotalValue(_cash_balance, _holdings, _test_prices)
get_profit_loss == ProfitLoss(_cash_balance, _total_deposits, _holdings, _test_prices)

Next ==
    \/ \E a \in Amounts : __init__(a)
    \/ \E a \in Amounts : deposit(a)
    \/ \E a \in Amounts : withdraw(a)
    \/ \E s \in Symbols, q \in Quantities : buy_shares(s, q)
    \/ \E s \in Symbols, q \in Quantities : sell_shares(s, q)

Spec == Init /\ [][Next]_vars

(***************************************************************************)
(* The environment: the price of a symbol changes or disappears, as when a *)
(* test patches get_share_price                                            *)
(***************************************************************************)
SetPrice(symbol, price) ==
    /\ _test_prices' = [s \in DOMAIN _test_prices \cup {symbol} |->
                            IF s = symbol THEN price ELSE _test_prices[s]]
    /\ _test_prices' # _test_prices
    /\ UNCHANGED <<alive, threads, fields, copies, last, before>>

RemovePrice(symbol) ==
    /\ symbol \in DOMAIN _test_prices
    /\ _test_prices' = [s \in DOMAIN _test_prices \ {symbol} |-> _test_prices[s]]
    /\ UNCHANGED <<alive, threads, fields, copies, last, before>>

PriceChange ==
    \/ \E s \in PatchSymbols, p \in PatchPrices : SetPrice(s, p)
    \/ \E s \in PatchSymbols : RemovePrice(s)

\* the account's operations with finite amounts only
NextTrading ==
    \/ \E a \in TradingAmounts : __init__(a)
    \/ \E a \in TradingAmounts : deposit(a)
    \/ \E a \in TradingAmounts : withdraw(a)
    \/ \E s \in Symbols, q \in Quantities : buy_shares(s, q)
    \/ \E s \in Symbols, q \in Quantities : sell_shares(s, q)

NextPrices == NextTrading \/ PriceChange

SpecPrices == Init /\ [][NextPrices]_vars

(***************************************************************************)
(* Callers that write a symbol in one case when they buy and in the other  *)
(* case when they sell                                                     *)
(***************************************************************************)
BuySymbols == {"aapl", "TSLA"}
SellSymbols == {"AAPL", "tsla"}

NextSymbols ==
    \/ \E a \in TradingAmounts : __init__(a)
    \/ \E s \in BuySymbols, q \in Quantities : buy_shares(s, q)
    \/ \E s \in SellSymbols, q \in Quantities : sell_shares(s, q)

SpecSymbols == Init /\ [][NextSymbols]_vars

(***************************************************************************)
(* Purchases of a cheap, an expensive and an unknown symbol                *)
(***************************************************************************)
OrderSymbols == {"TSLA", "GOOGL", "FAKE"}

NextBuying ==
    \/ \E a \in TradingAmounts : __init__(a)
    \/ \E a \in TradingAmounts : deposit(a)
    \/ \E a \in TradingAmounts : withdraw(a)
    \/ \E s \in OrderSymbols, q \in Quantities : buy_shares(s, q)

SpecBuying == Init /\ [][NextBuying]_vars

(***************************************************************************)
(* Calls of the getters that compute a value: the call returns the value   *)
(* (kept in last) and assigns nothing                                      *)
(***************************************************************************)
\* the call returned value
ReturnedValue(op, value) ==
    /\ last' = [op |-> op, err |-> Ok, value |-> value]
    /\ before' = Snapshot

get_portfolio_value_call ==
    /\ alive
    /\ ReturnedValue("get_portfolio_value", get_portfolio_value)
    /\ UNCHANGED <<alive, threads, fields, _test_prices, copies>>

get_total_value_call ==
    /\ alive
    /\ ReturnedValue("get_total_value", get_total_value)
    /\ UNCHANGED <<alive, threads, fields, _test_prices, copies>>

get_profit_loss_call ==
    /\ alive
    /\ ReturnedValue("get_profit_loss", get_profit_loss)
    /\ UNCHANGED <<alive, threads, fields, _test_prices, copies>>

NextValues ==
    \/ NextTrading
    \/ PriceChange
    \/ get_portfolio_value_call
    \/ get_total_value_call
    \/ get_profit_loss_call

SpecValues == Init /\ [][NextValues]_vars

(***************************************************************************)
(* The getters that return containers, and a caller that changes what it   *)
(* got.  A dict or list value is a reference: holdings_copy is either the  *)
(* account's own dict (shared) or a dict of its own; the elements of       *)
(* history_copy are references to record dicts, a record of the account    *)
(* being named by its position in _transactions (0 names an object that is *)
(* no record of the account).                                              *)
(***************************************************************************)
\* the amount, symbols and quantities of the runs with a caller's copies
CopyAmounts == {Money(10000, 0)}
CopySymbols == {"AAPL"}
CopyQuantities == {IntV(4), IntV(10)}
\* what the caller writes into its copies
CopyValues == {99}
RecordWrites == {[field |-> "total_amount", value |-> Money(0, 0)]}

\* return self._holdings
DictAlias(d) == [k |-> "dict", shared |-> TRUE, items |-> d]

\* self._holdings.copy()
DictCopy(d) == [k |-> "dict", shared |-> FALSE, items |-> d]

\* self._transactions.copy(): a new list of the same record objects
ListCopy(l) == [k |-> "list", items |-> [i \in 1..Len(l) |-> i]]

get_holdings ==
    /\ alive
    /\ holdings_copy' = DictCopy(_holdings)
    /\ Returned("get_holdings")
    /\ UNCHANGED <<alive, threads, fields, _test_prices, history_copy>>

get_transaction_history ==
    /\ alive
    /\ history_copy' = ListCopy(_transactions)
    /\ Returned("get_transaction_history")
    /\ UNCHANGED <<alive, threads, fields, _test_prices, holdings_copy>>

\* the items of the dict the caller holds
CopyItems == IF holdings_copy.shared THEN _holdings ELSE holdings_copy.items

\* the caller's dict gets new items
WriteCopyItems(items) ==
    IF holdings_copy.shared
    THEN _holdings' = items /\ UNCHANGED holdings_copy
    ELSE holdings_copy' = [holdings_copy EXCEPT !.items = items] /\ UNCHANGED _holdings

\* holdings_copy[symbol] = n
holdings_copy_setitem(symbol, n) ==
    /\ holdings_copy.k = "dict"
    /\ WriteCopyItems([s \in DOMAIN CopyItems \cup {symbol} |->
                          IF s = symbol THEN n ELSE CopyItems[s]])
    /\ Returned("holdings_copy.__setitem__")
    /\ UNCHANGED <<alive, threads, _cash_balance, _total_deposits, _transactions,
                   _test_prices, history_copy>>

\* del holdings_copy[symbol]
holdings_copy_delitem(symbol) ==
    /\ holdings_copy.k = "dict"
    /\ symbol \in DOMAIN CopyItems
    /\ WriteCopyItems([s \in DOMAIN CopyItems \ {symbol} |-> CopyItems[s]])
    /\ Returned("holdings_copy.__delitem__")
    /\ UNCHANGED <<alive, threads, _cash_balance, _total_deposits, _transactions,
                   _test_prices, history_copy>>

\* history_copy.append("malicious entry")
history_copy_append ==
    /\ history_copy.k = "list"
    /\ Len(history_copy.items) <= Len(_transactions)
    /\ history_copy' = [history_copy EXCEPT !.items = Append(@, 0)]
    /\ Returned("history_copy.append")
    /\ UNCHANGED <<alive, threads, fields, _test_prices, holdings_copy>>

\* history_copy.pop()
history_copy_pop ==
    /\ history_copy.k = "list"
    /\ Len(history_copy.items) > 0
    /\ history_copy' = [history_copy EXCEPT !.items = SubSeq(@, 1, Len(@) - 1)]
    /\ Returned("history_copy.pop")
    /\ UNCHANGED <<alive, threads, fields, _test_prices, holdings_copy>>

\* history_copy[j][field] = value: a write to the dict that element j refers to
history_copy_setfield(j, w) ==
    /\ history_copy.k = "list"
    /\ j \in 1..Len(history_copy.items)
    /\ history_copy.items[j] # 0
    /\ _transactions' = [_transactions EXCEPT ![history_copy.items[j]] =
                            [@ EXCEPT ![w.field] = w.value]]
    /\ Returned("history_copy[j][field] = value")
    /\ UNCHANGED <<alive, threads, _cash_balance, _total_deposits, _holdings,
                   _test_prices, copies>>

NextCopies ==
    \/ \E a \in CopyAmounts : __init__(a)
    \/ \E s \in CopySymbols, q \in CopyQuantities : buy_shares(s, q)
    \/ \E s \in CopySymbols, q \in CopyQuantities : sell_shares(s, q)
    \/ get_holdings
    \/ \E s \in CopySymbols, n \in CopyValues : holdings_copy_setitem(s, n)
    \/ \E s \in CopySymbols : holdings_copy_delitem(s)
    \/ get_transaction_history
    \/ history_copy_append
    \/ history_copy_pop
    \/ \E j \in 1..MaxTransactions, w \in RecordWrites : history_copy_setfield(j, w)

SpecCopies == Init /\ [][NextCopies]_vars

(***************************************************************************)
(* Two threads that each make one withdraw or buy_shares call on the same  *)
(* Account.  The methods take no lock, and Python promises no atomicity    *)
(* for a method body, so a call is a sequence of steps between which the   *)
(* other thread may run: the checks up to the comparison with              *)
(* self._cash_balance, the read of self._cash_balance by -=, its write,    *)
(* the update of the holdings, the append of the record.  The callers      *)
(* either call the account as it is or wrap each call in one lock per      *)
(* Account (threads.locked).                                               *)
(***************************************************************************)
Threads == {1, 2}
ThreadAmounts == {Money(1500, 0), Money(10000, 0)}
ThreadJobs ==
    {[op |-> "withdraw", amount |-> Money(1500, 0), symbol |-> "", quantity |-> None],
     [op |-> "buy_shares", amount |-> None, symbol |-> "AAPL", quantity |-> IntV(10)]}

Other(i) == CHOOSE j \in Threads : j # i

\* thread i is past its checks and has not written the cash balance yet
BetweenCheckAndUpdate(i) == threads.t[i].pc \in {"load", "store"}

\* with one lock per Account: the lock is free
LockFree == threads.owner = 0

\* the lock is taken by thread i when the callers use one
Acquire(i) == IF threads.locked THEN i ELSE 0

\* the two threads are started, each with its call
start_threads(locked, job1, job2) ==
    /\ alive
    /\ ~threads.started
    /\ threads' = [started |-> TRUE, locked |-> locked, owner |-> 0, raced |-> FALSE,
                   start |-> _cash_balance,
                   t |-> [i \in Threads |->
                            [pc |-> "check", job |-> IF i = 1 THEN job1 ELSE job2,
                             debit |-> None, tmp |-> None, res |-> None]]]
    /\ UNCHANGED <<alive, fields, _test_prices, copies, last, before>>

\* the exception the call of thread i raises on the account as it is now
job_error(job) ==
    IF job.op = "withdraw"
    THEN withdraw_error(_cash_balance, job.amount)
    ELSE buy_shares_error(_cash_balance, _test_prices, job.symbol, job.quantity)

\* the amount the call takes from the cash balance
job_debit(job) ==
    IF job.op = "withdraw"
    THEN job.amount
    ELSE TotalCost(get_share_price(_test_prices, job.symbol), job.quantity.v)

\* thread i enters its call and runs the checks of the method
thread_check(i) ==
    /\ threads.started
    /\ threads.t[i].pc = "check"
    /\ threads.locked => LockFree
    /\ LET job == threads.t[i].job
           err == job_error(job)
       IN  threads' =
             IF err # Ok
             THEN [threads EXCEPT !.t[i].pc = "done", !.t[i].res = err]
             ELSE [threads EXCEPT !.t[i].pc = "load",
                                  !.t[i].debit = job_debit(job),
                                  !.owner = Acquire(i),
                                  !.raced = @ \/ BetweenCheckAndUpdate(Other(i))]
    /\ UNCHANGED <<alive, fields, _test_prices, copies, last, before>>

\* self._cash_balance -= ...: the read
thread_load(i) ==
    /\ threads.started
    /\ threads.t[i].pc = "load"
    /\ threads' = [threads EXCEPT !.t[i].pc = "store", !.t[i].tmp = _cash_balance]
    /\ UNCHANGED <<alive, fields, _test_prices, copies, last, before>>

\* self._cash_balance -= ...: the write
thread_store(i) ==
    /\ threads.started
    /\ threads.t[i].pc = "store"
    /\ _cash_balance' = FSub(threads.t[i].tmp, threads.t[i].debit)
    /\ threads' = [threads EXCEPT !.t[i].pc =
                      IF threads.t[i].job.op = "buy_shares" THEN "hold" ELSE "record"]
    /\ UNCHANGED <<alive, _total_deposits, _holdings, _transactions, _test_prices,
                   copies, last, before>>

\* self._holdings[normalized_symbol] = self._holdings.get(normalized_symbol, 0) + quantity
thread_hold(i) ==
    /\ threads.started
    /\ threads.t[i].pc = "hold"
    /\ _holdings' = HoldingsAfterBuy(_holdings, Upper(threads.t[i].job.symbol),
                                     threads.t[i].job.quantity.v)
    /\ threads' = [threads EXCEPT !.t[i].pc = "record"]
    /\ UNCHANGED <<alive, _cash_balance, _total_deposits, _transactions, _test_prices,
                   copies, last, before>>

\* self._record_transaction(...), and the call returns (the lock is released)
thread_record(i) ==
    /\ threads.started
    /\ threads.t[i].pc = "record"
    /\ LET job == threads.t[i].job
       IN  IF job.op = "withdraw"
           THEN _record_transaction("WITHDRAW", "", None, None, job.amount)
           ELSE _record_transaction("BUY", job.symbol, job.quantity,
                                    get_share_price(_test_prices, job.symbol),
                                    threads.t[i].debit)
    /\ threads' = [threads EXCEPT !.t[i].pc = "done", !.t[i].res = Ok, !.owner = 0]
    /\ UNCHANGED <<alive, _cash_balance, _total_deposits, _holdings, _test_prices,
                   copies, last, before>>

NextThreads ==
    \/ \E a \in ThreadAmounts : __init__(a)
    \/ \E locked \in BOOLEAN, job1, job2 \in ThreadJobs : start_threads(locked, job1, job2)
    \/ \E i \in Threads : thread_check(i)
    \/ \E i \in Threads : thread_load(i)
    \/ \E i \in Threads : thread_store(i)
    \/ \E i \in Threads : thread_hold(i)
    \/ \E i \in Threads : thread_record(i)

SpecThreads == Init /\ [][NextThreads]_vars

(***************************************************************************)
(* Properties                                                              *)
(***************************************************************************)
MutatingOps == {"deposit", "withdraw", "buy_shares", "sell_shares"}

\* the account is as it was before the last call
SameAccount ==
    /\ _cash_balance = before.cash
    /\ _total_deposits = before.deposits
    /\ _holdings = before.holdings
    /\ _transactions = before.transactions

\* the history is the one before the last call plus n records
Appended(n) ==
    /\ Len(_transactions) = Len(before.transactions) + n
    /\ SubSeq(_transactions, 1, Len(before.transactions)) = before.transactions

LastRecord == _transactions[Len(_transactions)]

\* C1: every deposit, withdraw, buy_shares or sell_shares call either returns
\* and has appended exactly one transaction record, or raises and leaves cash
\* balance, total deposits, holdings and history as they were before the call.
C1_AllOrNothing ==
    last.op \in MutatingOps =>
        IF last.err = Ok THEN Appended(1) ELSE SameAccount

\* a purchase refused for lack of funds, on an account that holds cash
C1_Witness ==
    /\ last.op = "buy_shares"
    /\ last.err.type = "InsufficientFundsError"
    /\ FGt(_cash_balance, Fin(0))
    /\ SameAccount

\* C2: no overdraft: a call made on an account whose cash balance is >= 0
\* leaves a cash balance >= 0, so that the balance is >= 0 in every state
\* reached from a valid construction.
C2_NoOverdraft ==
    (last.op \in MutatingOps /\ FGe(before.cash, Fin(0))) => FGe(_cash_balance, Fin(0))

\* C3: every entry of holdings has a strictly positive quantity; an entry
\* whose quantity reaches 0 is removed.
C3_PositiveHoldings == \A s \in DOMAIN _holdings : _holdings[s] >= 1

\* a sale of everything held of a symbol has removed its entry
C3_Witness ==
    /\ last.op = "sell_shares"
    /\ last.err = Ok
    /\ \E s \in DOMAIN before.holdings : s \notin DOMAIN _holdings

\* C4: a successful withdraw leaves get_profit_loss() as it was before the
\* withdrawal (prices unchanged).
C4_WithdrawKeepsProfitLoss ==
    (last.op = "withdraw" /\ last.err = Ok /\ _test_prices = before.prices) =>
        get_profit_loss =
            ProfitLoss(before.cash, before.deposits, before.holdings, before.prices)

\* C7: a successful buy_shares(symbol, q) immediately followed by a successful
\* sell_shares(symbol, q), with the prices as they were before the buy, restores
\* cash balance, holdings, total deposits, get_total_value() and
\* get_profit_loss() to their values before the buy; the history is the one
\* before the buy plus a BUY and a SELL record.
C7_RoundTrip ==
    [][\A s \in Symbols, q \in Quantities :
        ( /\ last.op = "buy_shares"
          /\ last.err = Ok
          /\ Len(_transactions) > 0
          /\ LastRecord.symbol = Str(Upper(s))
          /\ LastRecord.quantity = q
          /\ _test_prices = before.prices
          /\ sell_shares(s, q)
          /\ last'.err = Ok )
        => LET price == before.prices[Upper(s)]
               amount == Fin(price.v * q.v)
           IN  /\ _cash_balance' = before.cash
               /\ _holdings' = before.holdings
               /\ _total_deposits' = before.deposits
               /\ get_total_value' =
                      TotalValue(before.cash, before.holdings, before.prices)
               /\ get_profit_loss' =
                      ProfitLoss(before.cash, before.deposits, before.holdings,
                                 before.prices)
               /\ _transactions' = before.transactions \o
                      << [type |-> "BUY", symbol |-> Str(Upper(s)), quantity |-> q,
                          price_per_share |-> price, total_amount |-> amount],
                         [type |-> "SELL", symbol |-> Str(Upper(s)), quantity |-> q,
                          price_per_share |-> price, total_amount |-> amount] >>
       ]_vars

\* a sale that undid the purchase recorded right before it, on a funded account
C7_Witness ==
    /\ last.op = "sell_shares"
    /\ last.err = Ok
    /\ Len(_transactions) >= 3
    /\ LET n == Len(_transactions)
       IN  /\ _transactions[n - 1].type = "BUY"
           /\ _transactions[n].symbol = _transactions[n - 1].symbol
           /\ _transactions[n].quantity = _transactions[n - 1].quantity
           /\ _transactions[n].price_per_share = _transactions[n - 1].price_per_share
    /\ FGt(_cash_balance, Fin(0))
    /\ _holdings = EmptyHoldings

\* the scenario of C8: funded by one deposit of 10000, 10 shares of AAPL bought
\* at 150 (cash 8500), and the price of AAPL now 160
C8_Scenario ==
    /\ alive
    /\ _transactions =
          << [type |-> "DEPOSIT", symbol |-> None, quantity |-> None,
              price_per_share |-> None, total_amount |-> Money(10000, 0)],
             [type |-> "BUY", symbol |-> Str("AAPL"), quantity |-> IntV(10),
              price_per_share |-> Money(150, 0), total_amount |-> Money(1500, 0)] >>
    /\ _cash_balance = Money(8500, 0)
    /\ ~PriceUnknown(_test_prices, "AAPL")
    /\ get_share_price(_test_prices, "AAPL") = Money(160, 0)

\* C8 as amended: in the scenario get_profit_loss() returns 100
\* ((8500 + 10 * 160) - 10000).
C8_ProfitLossIs100 == C8_Scenario => get_profit_loss = Money(100, 0)

\* C8 as stated: in the scenario get_profit_loss() returns -400.
C8_ProfitLossIsMinus400 == C8_Scenario => get_profit_loss = Money(-400, 0)

C8_Witness == C8_Scenario /\ _total_deposits = Money(10000, 0)

\* C9: sell_shares with a valid quantity above the owned quantity (0 when the
\* symbol is not held) raises InsufficientSharesError, never
\* UnknownSymbolError, also when the symbol has no price; the error reports the
\* requested and the owned quantity, and the account is unchanged.
C9_SharesCheckFirst ==
    [][\A s \in Symbols, q \in Quantities :
        ( /\ last'.op = "sell_shares"
          /\ ~InvalidQuantity(q)
          /\ q.v > Owned(_holdings, Upper(s))
          /\ sell_shares(s, q) )
        => /\ last'.err.type = "InsufficientSharesError"
           /\ last'.err.requested = q.v
           /\ last'.err.owned = Owned(_holdings, Upper(s))
           /\ UNCHANGED fields
       ]_vars

\* more shares requested than held, of a held symbol that has no price
C9_Witness ==
    /\ last.op = "sell_shares"
    /\ last.err.type = "InsufficientSharesError"
    /\ last.err.owned > 0
    /\ last.err.symbol \notin DOMAIN _test_prices
    /\ SameAccount

HistoryCopyWrites ==
    {"history_copy.append", "history_copy.pop", "history_copy[j][field] = value"}

HoldingsCopyWrites == {"holdings_copy.__setitem__", "holdings_copy.__delitem__"}

\* C5: whatever the caller does to the list it got from
\* get_transaction_history() (append or remove an element, change a field of
\* one of its records), the ledger is unaffected: a later
\* get_transaction_history() returns the same records with the same values.
C5_HistoryCopyIsIndependent ==
    last.op \in HistoryCopyWrites => _transactions = before.transactions

\* C6: whatever the caller does to the mapping it got from get_holdings()
\* (change a quantity, add or delete a symbol), the ledger is unaffected: a
\* later get_holdings() returns the same holdings, and sell_shares is
\* checked against the unmodified quantities.
C6_HoldingsCopyIsIndependent ==
    last.op \in HoldingsCopyWrites =>
        /\ SameAccount
        /\ \A s \in CopySymbols, q \in CopyQuantities :
              sell_shares_error(_holdings, _test_prices, s, q) =
                  sell_shares_error(before.holdings, before.prices, s, q)

\* the caller's copy says 99 shares where the account holds fewer
C6_Witness ==
    /\ last.op = "holdings_copy.__setitem__"
    /\ _holdings # EmptyHoldings
    /\ \E s \in DOMAIN _holdings :
          s \in DOMAIN holdings_copy.items /\ holdings_copy.items[s] # _holdings[s]

\* C11: a successful buy_shares(symbol, q) at price p takes exactly p * q from
\* the cash balance, adds q to holdings[upper(symbol)] (creating the entry if
\* absent), leaves total deposits and every other holding as they were and
\* appends one BUY record with quantity q, price_per_share p and total_amount
\* p * q; a purchase whose cost equals the cash balance succeeds and leaves
\* cash 0.
C11_BuyEffect ==
    [][\A s \in Symbols, q \in Quantities :
        ( /\ last'.op = "buy_shares"
          /\ ~InvalidQuantity(q)
          /\ Upper(s) \in DOMAIN _test_prices
          /\ buy_shares(s, q) )
        => LET sym == Upper(s)
               p == _test_prices[sym]
               cost == p.v * q.v
           IN  /\ cost = _cash_balance.v => last'.err = Ok /\ _cash_balance' = Fin(0)
               /\ last'.err = Ok =>
                    /\ _cash_balance' = Fin(_cash_balance.v - cost)
                    /\ DOMAIN _holdings' = DOMAIN _holdings \cup {sym}
                    /\ _holdings'[sym] =
                          (IF sym \in DOMAIN _holdings THEN _holdings[sym] ELSE 0) + q.v
                    /\ \A o \in DOMAIN _holdings \ {sym} : _holdings'[o] = _holdings[o]
                    /\ _total_deposits' = _total_deposits
                    /\ _transactions' = Append(_transactions,
                          [type |-> "BUY", symbol |-> Str(sym), quantity |-> q,
                           price_per_share |-> p, total_amount |-> Fin(cost)])
       ]_vars

\* a purchase that took the whole cash balance
C11_Witness ==
    /\ last.op = "buy_shares"
    /\ last.err = Ok
    /\ FGt(before.cash, Fin(0))
    /\ _cash_balance = Fin(0)
    /\ LastRecord.total_amount = before.cash

\* C12: withdraw(amount) with a valid positive amount raises
\* InsufficientFundsError exactly when amount > cash balance (the error
\* reports the amount and the balance), and then the account is unchanged, so
\* that the same call fails the same way again; a withdrawal of exactly the
\* whole balance succeeds and leaves cash 0; a successful withdrawal takes
\* amount from the cash balance and leaves total deposits and holdings as
\* they were.
C12_Withdraw ==
    [][\A a \in Amounts :
        ( /\ last'.op = "withdraw"
          /\ a.k = "fin"
          /\ a.v > 0
          /\ withdraw(a) )
        => LET cash == _cash_balance
               exceeds == CASE cash.k = "fin" -> a.v > cash.v
                            [] cash.k = "inf" -> cash.v < 0
                            [] OTHER -> FALSE
           IN  /\ last'.err.type \in {"ok", "InsufficientFundsError"}
               /\ last'.err.type = "InsufficientFundsError" <=> exceeds
               /\ exceeds =>
                    /\ last'.err.requested = a
                    /\ last'.err.balance = cash
                    /\ UNCHANGED fields
                    /\ withdraw_error(_cash_balance', a) = last'.err
               /\ ~exceeds =>
                    /\ _cash_balance' = (IF cash.k = "fin" THEN Fin(cash.v - a.v) ELSE cash)
                    /\ _total_deposits' = _total_deposits
                    /\ _holdings' = _holdings
               /\ a = cash => last'.err = Ok /\ _cash_balance' = Fin(0)
       ]_vars

\* the whole balance of 10000 withdrawn
C12_Witness ==
    /\ last.op = "withdraw"
    /\ last.err = Ok
    /\ before.cash = Money(10000, 0)
    /\ _cash_balance = Fin(0)
    /\ LastRecord.type = "WITHDRAW"
    /\ _total_deposits = Money(10000, 0)

\* a DEPOSIT record of the given amount
DepositRecord(amount) ==
    [type |-> "DEPOSIT", symbol |-> None, quantity |-> None,
     price_per_share |-> None, total_amount |-> amount]

\* C13: two valid deposits d1 then d2, one right after the other, add d1 + d2
\* to the cash balance and to the total deposited, leave the holdings as they
\* were and append two DEPOSIT records with total_amount d1 and d2 in that
\* order; on an account that has only been funded with i (nothing but the
\* construction before them) cash balance and total deposited both equal
\* i + d1 + d2.
C13_TwoDeposits ==
    [][\A d2 \in Amounts :
        ( /\ last.op = "deposit"
          /\ last.err = Ok
          /\ last'.op = "deposit"
          /\ last'.err = Ok
          /\ d2.k = "fin"
          /\ LastRecord.total_amount.k = "fin"
          /\ before.cash.k = "fin"
          /\ before.deposits.k = "fin"
          /\ deposit(d2) )
        => LET d1 == LastRecord.total_amount
           IN  /\ d1.v > 0
               /\ d2.v > 0
               /\ _cash_balance' = Fin(before.cash.v + d1.v + d2.v)
               /\ _total_deposits' = Fin(before.deposits.v + d1.v + d2.v)
               /\ Len(before.transactions) <= 1 =>
                     /\ before.cash = before.deposits
                     /\ _cash_balance' = _total_deposits'
               /\ _holdings' = before.holdings
               /\ _transactions' =
                     before.transactions \o <<DepositRecord(d1), DepositRecord(d2)>>
       ]_vars

\* 10000 at construction, then two deposits of 1500
C13_Witness ==
    /\ last.op = "deposit"
    /\ last.err = Ok
    /\ _transactions = <<DepositRecord(Money(10000, 0)), DepositRecord(Money(1500, 0)),
                         DepositRecord(Money(1500, 0))>>
    /\ _cash_balance = Money(13000, 0)
    /\ _total_deposits = Money(13000, 0)
    /\ Len(before.transactions) = 2

C15_ConstructionAddsNoRecord ==
    [][ ( /\ last.op = "__init__"
          /\ last.err = Ok
          /\ FGt(_total_deposits, Fin(0)) )
        => /\ Len(_transactions) = 0
           /\ (last'.op \in {"deposit", "buy_shares"} /\ last'.err = Ok)
                 => Len(_transactions') = 1
       ]_vars

\* C16: the total deposited never decreases: after every deposit, withdraw,
\* buy_shares or sell_shares call it is >= its value before the call; a
\* deposit that returns has added exactly its amount to it, and every other
\* call, and every call that raises, has left it as it was.
C16_DepositsMonotone ==
    last.op \in MutatingOps =>
        /\ FGe(_total_deposits, before.deposits)
        /\ IF last.op = "deposit" /\ last.err = Ok
           THEN _total_deposits = FAdd(before.deposits, LastRecord.total_amount)
           ELSE _total_deposits = before.deposits

\* the record type each operation writes
RecordType(op) ==
    CASE op \in {"__init__", "deposit"} -> "DEPOSIT"
      [] op = "withdraw" -> "WITHDRAW"
      [] op = "buy_shares" -> "BUY"
      [] op = "sell_shares" -> "SELL"

\* C17: the history is append-only: across every step the history before the
\* step is a prefix of the history after it (no record removed, reordered or
\* altered by an operation of the account), a step adds at most one record,
\* and the record added is the last one and is the record of the operation
\* that was just performed.
C17_AppendOnly ==
    [][ /\ Len(_transactions') >= Len(_transactions)
        /\ Len(_transactions') <= Len(_transactions) + 1
        /\ \A i \in 1..Len(_transactions) : _transactions'[i] = _transactions[i]
        /\ Len(_transactions') > Len(_transactions) =>
              /\ last'.err = Ok
              /\ _transactions'[Len(_transactions')].type = RecordType(last'.op)
      ]_vars

\* a third record appended behind two records of other types
C17_Witness ==
    /\ Len(_transactions) = 3
    /\ before.transactions = SubSeq(_transactions, 1, 2)
    /\ _transactions[1].type = "DEPOSIT"
    /\ _transactions[2].type = "BUY"
    /\ _transactions[3].type = "SELL"

\* what is held of symbol s at the price of s, 0 if s is not held or has no
\* price, in half dollars
Worth(s) ==
    IF s \in DOMAIN _holdings /\ s \in DOMAIN _test_prices
    THEN _test_prices[s].v * _holdings[s]
    ELSE 0

AllWorth == Worth("AAPL") + Worth("GOOGL") + Worth("TSLA")

C19_BuyMovesValue ==
    (last.op = "buy_shares" /\ last.err = Ok /\ _test_prices = before.prices) =>
        LET cost == LastRecord.total_amount.v
        IN  /\ cost > 0
            /\ _cash_balance = Fin(before.cash.v - cost)
            /\ get_portfolio_value =
                  Fin(PortfolioValue(before.holdings, before.prices).v + cost)
            /\ get_total_value =
                  TotalValue(before.cash, before.holdings, before.prices)
            /\ get_profit_loss =
                  ProfitLoss(before.cash, before.deposits, before.holdings,
                             before.prices)

\* 10 shares of AAPL bought at 150 out of 10000: cash 8500, shares 1500
C19_Witness ==
    /\ last.op = "buy_shares"
    /\ last.err = Ok
    /\ _test_prices = before.prices
    /\ before.cash = Money(10000, 0)
    /\ _cash_balance = Money(8500, 0)
    /\ get_portfolio_value = Money(1500, 0)
    /\ get_total_value = Money(10000, 0)

\* C20: deposit(amount) raises the invalid-amount error and leaves the account
\* unchanged for every amount that is not a positive finite number (zero,
\* negative, not a number type, infinite, NaN), and accepts every other
\* amount, so that a deposit on an account whose cash balance and total
\* deposited are finite leaves them finite.
C20_DepositRejectsNonFinite ==
    [][\A a \in Amounts :
        (last'.op = "deposit" /\ deposit(a))
        => /\ IF a.k = "fin" /\ a.v > 0
              THEN last'.err = Ok
              ELSE last'.err = ValueError /\ UNCHANGED fields
           /\ (_cash_balance.k = "fin" /\ _total_deposits.k = "fin")
                 => (_cash_balance'.k = "fin" /\ _total_deposits'.k = "fin")
       ]_vars

\* the symbols in their uppercase form
Uppercase == {"AAPL", "GOOGL", "TSLA", "FAKE"}

\* C21: buy_shares and sell_shares called with the upper-case or the
\* lower-case form of a symbol act on the same holdings entry, the one under
\* the uppercase form, and after every step every key of the holdings and the
\* symbol of every BUY or SELL record is an uppercase form.
C21_SymbolNormalization ==
    [][ /\ DOMAIN _holdings' \subseteq Uppercase
        /\ \A i \in 1..Len(_transactions') :
              _transactions'[i].type \in {"BUY", "SELL"} =>
                 /\ _transactions'[i].symbol.k = "str"
                 /\ _transactions'[i].symbol.s \in Uppercase
        /\ \A s \in BuySymbols, q \in Quantities :
              (last'.op = "buy_shares" /\ last'.err = Ok /\ buy_shares(s, q)) =>
                 \E u \in Uppercase :
                    /\ u = Upper(s)
                    /\ _holdings'[u] =
                          (IF u \in DOMAIN _holdings THEN _holdings[u] ELSE 0) + q.v
                    /\ _transactions'[Len(_transactions')].symbol = Str(u)
        /\ \A s \in SellSymbols, q \in Quantities :
              (last'.op = "sell_shares" /\ last'.err = Ok /\ sell_shares(s, q)) =>
                 \E u \in DOMAIN _holdings :
                    /\ u = Upper(s)
                    /\ _holdings[u] >= q.v
                    /\ \/ u \notin DOMAIN _holdings' /\ _holdings[u] = q.v
                       \/ u \in DOMAIN _holdings' /\ _holdings'[u] = _holdings[u] - q.v
                    /\ _transactions'[Len(_transactions')].symbol = Str(u)
      ]_vars

\* shares bought as 'TSLA' and then sold in part as 'tsla' (or bought as
\* 'aapl' and sold as 'AAPL'): one entry, under the uppercase key
C21_Witness ==
    /\ last.op = "sell_shares"
    /\ last.err = Ok
    /\ \E u \in DOMAIN _holdings :
          /\ u \in DOMAIN before.holdings
          /\ _holdings[u] = 6
          /\ before.holdings[u] = 10
          /\ LastRecord.symbol = Str(u)
          /\ _transactions[Len(_transactions) - 1].symbol = Str(u)

\* a record as the history may hold it
WellFormed(r) ==
    /\ r.type \in {"DEPOSIT", "WITHDRAW", "BUY", "SELL"}
    /\ FGt(r.total_amount, Fin(0))
    /\ IF r.type \in {"BUY", "SELL"}
       THEN /\ r.symbol.k = "str"
            /\ r.quantity.k = "int"
            /\ r.quantity.v > 0
            /\ r.price_per_share # None
            /\ FGt(r.price_per_share, Fin(0))
            /\ r.total_amount = Fin(r.price_per_share.v * r.quantity.v)
       ELSE /\ r.symbol = None
            /\ r.quantity = None
            /\ r.price_per_share = None

\* C22: every record of the history is well-formed in every reachable state:
\* its type is DEPOSIT, WITHDRAW, BUY or SELL; symbol, quantity (a positive
\* int) and price_per_share (positive) are present exactly for BUY and SELL
\* and None otherwise; total_amount is strictly positive and, for BUY and
\* SELL, equals price_per_share * quantity.
C22_WellFormedRecords ==
    \A i \in 1..Len(_transactions) : WellFormed(_transactions[i])

\* C23: buy_shares checks in a fixed order: a quantity that is zero, negative
\* or not an int raises ValueError, also for a symbol without a price; with a
\* valid quantity a symbol without a price raises UnknownSymbolError whatever
\* the cash balance; only then a cost above the cash balance raises
\* InsufficientFundsError (reporting the cost and the balance); otherwise the
\* call returns.  Every call that raises leaves cash and holdings as they
\* were.
C23_BuyCheckOrder ==
    [][\A s \in OrderSymbols, q \in Quantities :
        (last'.op = "buy_shares" /\ buy_shares(s, q))
        => LET invalid == q.k # "int" \/ q.v <= 0
               unknown == Upper(s) \notin DOMAIN _test_prices
               cost == _test_prices[Upper(s)].v * q.v
           IN  /\ invalid => last'.err = ValueError
               /\ (~invalid /\ unknown) => last'.err.type = "UnknownSymbolError"
               /\ (~invalid /\ ~unknown /\ cost > _cash_balance.v) =>
                     /\ last'.err.type = "InsufficientFundsError"
                     /\ last'.err.requested = Fin(cost)
                     /\ last'.err.balance = _cash_balance
               /\ (~invalid /\ ~unknown /\ cost <= _cash_balance.v) => last'.err = Ok
               /\ last'.err # Ok =>
                     /\ _cash_balance' = _cash_balance
                     /\ _holdings' = _holdings
                     /\ UNCHANGED <<_total_deposits, _transactions>>
       ]_vars

\* 4 shares of GOOGL at 2750 refused with cash 10000 and nothing held
C23_Witness ==
    /\ last.op = "buy_shares"
    /\ last.err.type = "InsufficientFundsError"
    /\ last.err.requested = Money(11000, 0)
    /\ last.err.balance = Money(10000, 0)
    /\ _cash_balance = Money(10000, 0)
    /\ _holdings = EmptyHoldings

\* thread i has written the cash balance
Applied(i) == threads.t[i].pc \in {"hold", "record"} \/ threads.t[i].res = Ok

\* what the threads that have written the cash balance took, in half dollars
AppliedDebits ==
    (IF Applied(1) THEN threads.t[1].debit.v ELSE 0)
    + (IF Applied(2) THEN threads.t[2].debit.v ELSE 0)

\* the cash balance is negative, or is not what it was when the threads
\* started minus what they took (an update was lost)
OverdrawnOrLostUpdate ==
    \/ _cash_balance.v < 0
    \/ _cash_balance.v # threads.start.v - AppliedDebits

\* C24: the operations are not atomic under concurrent callers: a negative
\* cash balance or a lost update of the balance occurs only when the callers
\* use no lock and one call passed its balance check while the other was
\* between its check and its update of the balance (and the witness shows it
\* does occur); with the calls serialized by one lock per Account no call
\* passes its check while the other is between check and update, and no such
\* state is reached.
C24_RaceOnlyWithoutLock ==
    threads.started =>
        /\ OverdrawnOrLostUpdate => (~threads.locked /\ threads.raced)
        /\ threads.locked =>
              /\ ~threads.raced
              /\ ~(BetweenCheckAndUpdate(1) /\ BetweenCheckAndUpdate(2))

\* two unlocked withdrawals of 1500 from a balance of 1500 both returned:
\* the balance is -1500
C24_Witness ==
    /\ threads.started
    /\ ~threads.locked
    /\ threads.start = Money(1500, 0)
    /\ \A i \in Threads : threads.t[i].job.op = "withdraw" /\ threads.t[i].res = Ok
    /\ _cash_balance = Money(-1500, 0)
    /\ Len(_transactions) = 3

\* a == b on floats: NaN equals nothing
FEq(a, b) == a.k # "nan" /\ b.k # "nan" /\ a = b

RECURSIVE CashOfRecords(_)
\* the total_amount of the DEPOSIT and SELL records minus that of the
\* WITHDRAW and BUY records among the first n records of the history
CashOfRecords(n) ==
    IF n = 0 THEN Fin(0)
    ELSE LET r == _transactions[n]
         IN  FAdd(CashOfRecords(n - 1),
                  IF r.type \in {"DEPOSIT", "SELL"}
                  THEN r.total_amount
                  ELSE FNeg(r.total_amount))

RECURSIVE DepositsOfRecords(_)
\* the total_amount of the DEPOSIT records among the first n records
DepositsOfRecords(n) ==
    IF n = 0 THEN Fin(0)
    ELSE LET r == _transactions[n]
         IN  FAdd(DepositsOfRecords(n - 1),
                  IF r.type = "DEPOSIT" THEN r.total_amount ELSE Fin(0))

\* C25: cash conservation: in every reachable state the cash balance equals
\* the sum of total_amount over the DEPOSIT and SELL records minus the sum
\* over the WITHDRAW and BUY records of the history, and the total deposited
\* equals the sum of total_amount over the DEPOSIT records.
C25_CashConservation ==
    alive =>
        /\ FEq(_cash_balance, CashOfRecords(Len(_transactions)))
        /\ FEq(_total_deposits, DepositsOfRecords(Len(_transactions)))

RECURSIVE SharesOfRecords(_, _)
\* the quantities of the BUY records of symbol s minus those of its SELL
\* records among the first n records of the history
SharesOfRecords(s, n) ==
    IF n = 0 THEN 0
    ELSE LET r == _transactions[n]
         IN  SharesOfRecords(s, n - 1)
             + (IF r.type = "BUY" /\ r.symbol = Str(s) THEN r.quantity.v
                ELSE IF r.type = "SELL" /\ r.symbol = Str(s) THEN 0 - r.quantity.v
                ELSE 0)

\* C26: share conservation: in every reachable state, for every symbol the
\* held quantity (0 when the key is absent) equals the sum of the quantities
\* of that symbol's BUY records minus the sum of the quantities of its SELL
\* records.
C26_ShareConservation ==
    /\ DOMAIN _holdings \subseteq Uppercase
    /\ \A s \in Uppercase :
          (IF s \in DOMAIN _holdings THEN _holdings[s] ELSE 0)
             = SharesOfRecords(s, Len(_transactions))

\* 14 shares held after two purchases, of 4 and of 10
C26_Witness ==
    /\ last.op = "buy_shares"
    /\ last.err = Ok
    /\ \E s \in DOMAIN _holdings :
          /\ _holdings[s] = 14
          /\ s \in DOMAIN before.holdings
          /\ before.holdings[s] \in {4, 10}

RECURSIVE WithdrawnOfRecords(_)
\* the total_amount of the WITHDRAW records among the first n records
WithdrawnOfRecords(n) ==
    IF n = 0 THEN Fin(0)
    ELSE LET r == _transactions[n]
         IN  FAdd(WithdrawnOfRecords(n - 1),
                  IF r.type = "WITHDRAW" THEN r.total_amount ELSE Fin(0))

\* C27: with prices that never change, in every reachable state
\* get_profit_loss() equals minus the sum of all successful withdrawals, so
\* that it is 0 as long as only deposits, buys and sells were made.
C27_ProfitLossIsMinusWithdrawals ==
    (alive /\ _test_prices = _test_prices_initial) =>
        FEq(get_profit_loss, FNeg(WithdrawnOfRecords(Len(_transactions))))

====
